---- MODULE Spec2Model ----
(***************************************************************************)
(* Model of the ULID package (cloudresty/ulid): the Crockford Base32 codec  *)
(* (ultraFastEncode, ultraFastDecode, String, Parse) and the monotonic      *)
(* generator NewTime with its process-wide state lastTime, lastRandomness   *)
(* and mutex.                                                               *)
(*                                                                          *)
(* Representation.  TLC integers are 32 bit wide, the program's are not:    *)
(*   - a byte is an integer 0..255;                                         *)
(*   - a uint64 is a tuple of 8 bytes, big-endian (index 1 holds bits       *)
(*     63..56); shifts lose the bits shifted out and ++ wraps at 2^64;      *)
(*   - a [10]byte randomness and a [16]byte data block are tuples of bytes  *)
(*     (index i + 1 is the Go index i);                                     *)
(*   - a Go string is a tuple of bytes (ASCII codes).                       *)
(***************************************************************************)
EXTENDS Integers, Sequences, FiniteSets, TLC

\* ------------------------------------------------------------------------
\* State
\* ------------------------------------------------------------------------
VARIABLES
    lastTime,        \* package variable lastTime (uint64)
    lastRandomness,  \* package variable lastRandomness ([10]byte)
    mutex,           \* 0 when unlocked, else the thread holding it
    pc,              \* pc[t]: where thread t is inside NewTime
    timestamp,       \* timestamp[t]: NewTime's parameter (incremented on rollover)
    randomness,      \* randomness[t]: NewTime's local
    ret,             \* ret[t]: what the last NewTime of t returned (string, error)
    call,            \* call[t]: history of the current call of t (not program state)
    log,             \* the calls that went through the critical section, in lock order
    ncalls,          \* number of calls started so far
    cin,             \* codec run: the two ULID values given to String
    cstr,            \* codec run: the two strings String returned
    cres,            \* codec run: what Parse returned for the first string
    cphase,          \* codec run: "input", "encoded", "parsed", "lenient", "reparsed"
    text,            \* parse run: the string handed to Parse
    edits,           \* parse run: number of characters retyped so far
    parsed,          \* parse run: Parse of text, of its upper- and lowercase form
    incArg,          \* increment run: the 10-byte value to increment
    incRes,          \* increment run: results of the unrolled and the helper increment
    hLastTime,       \* helper-based generator: package variable lastTime
    hLastRandomness, \* helper-based generator: package variable lastRandomness
    hret             \* helper-based generator: hret[t], what its NewTime returned to t

\* ------------------------------------------------------------------------
\* Program constants (const block)
\* ------------------------------------------------------------------------
encodedLength == 26
timestampBits == 48
randomnessBits == 80
randomnessBytes == 10
timestampBytes == 6
totalBytes == timestampBytes + randomnessBytes

Byte == 0..255

\* ------------------------------------------------------------------------
\* uint64: the operators of the codec's shift and mask expressions
\* ------------------------------------------------------------------------
\* 2^n for n in 0..8
Pow2 == [n \in 0..8 |-> << 1, 2, 4, 8, 16, 32, 64, 128, 256 >>[n + 1]]

\* bitwise or / and of two 4-bit values a, b: OrNib[a + 1][b + 1]
OrNib ==
    <<
       << 0, 1, 2, 3, 4, 5, 6, 7, 8, 9, 10, 11, 12, 13, 14, 15 >>,
       << 1, 1, 3, 3, 5, 5, 7, 7, 9, 9, 11, 11, 13, 13, 15, 15 >>,
       << 2, 3, 2, 3, 6, 7, 6, 7, 10, 11, 10, 11, 14, 15, 14, 15 >>,
       << 3, 3, 3, 3, 7, 7, 7, 7, 11, 11, 11, 11, 15, 15, 15, 15 >>,
       << 4, 5, 6, 7, 4, 5, 6, 7, 12, 13, 14, 15, 12, 13, 14, 15 >>,
       << 5, 5, 7, 7, 5, 5, 7, 7, 13, 13, 15, 15, 13, 13, 15, 15 >>,
       << 6, 7, 6, 7, 6, 7, 6, 7, 14, 15, 14, 15, 14, 15, 14, 15 >>,
       << 7, 7, 7, 7, 7, 7, 7, 7, 15, 15, 15, 15, 15, 15, 15, 15 >>,
       << 8, 9, 10, 11, 12, 13, 14, 15, 8, 9, 10, 11, 12, 13, 14, 15 >>,
       << 9, 9, 11, 11, 13, 13, 15, 15, 9, 9, 11, 11, 13, 13, 15, 15 >>,
       << 10, 11, 10, 11, 14, 15, 14, 15, 10, 11, 10, 11, 14, 15, 14, 15 >>,
       << 11, 11, 11, 11, 15, 15, 15, 15, 11, 11, 11, 11, 15, 15, 15, 15 >>,
       << 12, 13, 14, 15, 12, 13, 14, 15, 12, 13, 14, 15, 12, 13, 14, 15 >>,
       << 13, 13, 15, 15, 13, 13, 15, 15, 13, 13, 15, 15, 13, 13, 15, 15 >>,
       << 14, 15, 14, 15, 14, 15, 14, 15, 14, 15, 14, 15, 14, 15, 14, 15 >>,
       << 15, 15, 15, 15, 15, 15, 15, 15, 15, 15, 15, 15, 15, 15, 15, 15 >> >>
AndNib ==
    <<
       << 0, 0, 0, 0, 0, 0, 0, 0, 0, 0, 0, 0, 0, 0, 0, 0 >>,
       << 0, 1, 0, 1, 0, 1, 0, 1, 0, 1, 0, 1, 0, 1, 0, 1 >>,
       << 0, 0, 2, 2, 0, 0, 2, 2, 0, 0, 2, 2, 0, 0, 2, 2 >>,
       << 0, 1, 2, 3, 0, 1, 2, 3, 0, 1, 2, 3, 0, 1, 2, 3 >>,
       << 0, 0, 0, 0, 4, 4, 4, 4, 0, 0, 0, 0, 4, 4, 4, 4 >>,
       << 0, 1, 0, 1, 4, 5, 4, 5, 0, 1, 0, 1, 4, 5, 4, 5 >>,
       << 0, 0, 2, 2, 4, 4, 6, 6, 0, 0, 2, 2, 4, 4, 6, 6 >>,
       << 0, 1, 2, 3, 4, 5, 6, 7, 0, 1, 2, 3, 4, 5, 6, 7 >>,
       << 0, 0, 0, 0, 0, 0, 0, 0, 8, 8, 8, 8, 8, 8, 8, 8 >>,
       << 0, 1, 0, 1, 0, 1, 0, 1, 8, 9, 8, 9, 8, 9, 8, 9 >>,
       << 0, 0, 2, 2, 0, 0, 2, 2, 8, 8, 10, 10, 8, 8, 10, 10 >>,
       << 0, 1, 2, 3, 0, 1, 2, 3, 8, 9, 10, 11, 8, 9, 10, 11 >>,
       << 0, 0, 0, 0, 4, 4, 4, 4, 8, 8, 8, 8, 12, 12, 12, 12 >>,
       << 0, 1, 0, 1, 4, 5, 4, 5, 8, 9, 8, 9, 12, 13, 12, 13 >>,
       << 0, 0, 2, 2, 4, 4, 6, 6, 8, 8, 10, 10, 12, 12, 14, 14 >>,
       << 0, 1, 2, 3, 4, 5, 6, 7, 8, 9, 10, 11, 12, 13, 14, 15 >> >>

\* bitwise or / and of two bytes
OrByte(a, b) == (16 * OrNib[(a \div 16) + 1][(b \div 16) + 1]) + OrNib[(a % 16) + 1][(b % 16) + 1]
AndByte(a, b) == (16 * AndNib[(a \div 16) + 1][(b \div 16) + 1]) + AndNib[(a % 16) + 1][(b % 16) + 1]

\* uint64(b) for a byte b
U64(b) == << 0, 0, 0, 0, 0, 0, 0, b >>

\* byte j of w, zero outside the word
ByteAt(w, j) == IF j >= 1 /\ j <= 8 THEN w[j] ELSE 0

\* w << n and w >> n on uint64 (bits shifted out are lost)
Shl(w, n) ==
    [i \in 1..8 |-> ((ByteAt(w, i + (n \div 8)) * Pow2[n % 8]) % 256)
                    + (ByteAt(w, i + (n \div 8) + 1) \div Pow2[8 - (n % 8)])]
Shr(w, n) ==
    [i \in 1..8 |-> (ByteAt(w, i - (n \div 8)) \div Pow2[n % 8])
                    + ((ByteAt(w, i - (n \div 8) - 1) * Pow2[8 - (n % 8)]) % 256)]

\* a | b and a & b
Or64(a, b) ==
    << OrByte(a[1], b[1]), OrByte(a[2], b[2]), OrByte(a[3], b[3]), OrByte(a[4], b[4]),
       OrByte(a[5], b[5]), OrByte(a[6], b[6]), OrByte(a[7], b[7]), OrByte(a[8], b[8]) >>
And64(a, b) == [i \in 1..8 |-> AndByte(a[i], b[i])]

\* byte(w): the low 8 bits of w
ToByte(w) == w[8]

\* int(w) for a word below 2^8 (a table index)
ToIndex(w) == w[8]

\* ------------------------------------------------------------------------
\* Encoding and decoding tables
\* ------------------------------------------------------------------------
\* "0123456789abcdefghjkmnpqrstvwxyz" as ASCII codes
crockfordAlphabet ==
    << 48, 49, 50, 51, 52, 53, 54, 55, 56, 57,
       97, 98, 99, 100, 101, 102, 103, 104, 106, 107,
       109, 110, 112, 113, 114, 115, 116, 118, 119, 120,
       121, 122 >>

\* faulty variant: the RFC 4648 alphabet "ABCDEFGHIJKLMNOPQRSTUVWXYZ234567"
encodeTableRFC4648 ==
    << 65, 66, 67, 68, 69, 70, 71, 72, 73, 74,
       75, 76, 77, 78, 79, 80, 81, 82, 83, 84,
       85, 86, 87, 88, 89, 90, 50, 51, 52, 53,
       54, 55 >>

\* encodeTable[v] of the source is encodeTable[v + 1] here
encodeTable ==
    << 48, 49, 50, 51, 52, 53, 54, 55, 56, 57,
       97, 98, 99, 100, 101, 102, 103, 104, 106, 107,
       109, 110, 112, 113, 114, 115, 116, 118, 119, 120,
       121, 122 >>

\* faulty variant: the uppercase variants are not entered
decodeTableBaseLowerOnly ==
    [c \in Byte |->
        IF \E i \in 1..32 : crockfordAlphabet[i] = c
        THEN (CHOOSE i \in 1..32 : crockfordAlphabet[i] = c) - 1
        ELSE 255]

\* init(): every entry 0xFF, then the alphabet and its uppercase variants
decodeTableBase ==
    [c \in Byte |->
        IF \E i \in 1..32 : crockfordAlphabet[i] = c
        THEN (CHOOSE i \in 1..32 : crockfordAlphabet[i] = c) - 1
        ELSE IF \E i \in 1..32 : /\ crockfordAlphabet[i] >= 97
                                 /\ crockfordAlphabet[i] <= 122
                                 /\ crockfordAlphabet[i] - 97 + 65 = c
        THEN (CHOOSE i \in 1..32 : crockfordAlphabet[i] - 97 + 65 = c) - 1
        ELSE 255]

\* faulty variant: the ambiguous characters are not entered
decodeTableNoAlias == decodeTableBase

\* init(): the ambiguous characters I i L l O o U u
decodeTable ==
    [c \in Byte |->
        IF c \in {73, 105, 76, 108} THEN decodeTableBase[49]
        ELSE IF c \in {79, 111} THEN decodeTableBase[48]
        ELSE IF c = 85 THEN decodeTableBase[86]
        ELSE IF c = 117 THEN decodeTableBase[118]
        ELSE decodeTableBase[c]]

\* ------------------------------------------------------------------------
\* ultraFastEncode: [16]byte -> 26 character string
\* ------------------------------------------------------------------------
Mask1F == U64(31)
Mask0F == U64(15)

\* faulty variant: the symbol is written in uppercase
SymUpper(w) ==
    LET c == encodeTable[ToIndex(w) + 1]
    IN  IF c >= 97 THEN c - 32 ELSE c

\* encodeTable[...]: the output character of a 5-bit value held in a word
Sym(w) == encodeTable[ToIndex(w) + 1]

ultraFastEncode(data) ==
    LET d(i) == data[i + 1]
        word1 == Or64(Shl(U64(d(0)), 56), Or64(Shl(U64(d(1)), 48),
                 Or64(Shl(U64(d(2)), 40), Or64(Shl(U64(d(3)), 32),
                 Or64(Shl(U64(d(4)), 24), Or64(Shl(U64(d(5)), 16),
                 Or64(Shl(U64(d(6)), 8), U64(d(7)))))))))
        word2 == Or64(Shl(U64(d(8) % 128), 57), Or64(Shl(U64(d(9)), 49),
                 Or64(Shl(U64(d(10)), 41), Or64(Shl(U64(d(11)), 33),
                 Or64(Shl(U64(d(12)), 25), Or64(Shl(U64(d(13)), 17),
                 Or64(Shl(U64(d(14)), 9), Shl(U64(d(15)), 1))))))))
    IN  << Sym(Shr(word1, 59)),
           Sym(And64(Shr(word1, 54), Mask1F)),
           Sym(And64(Shr(word1, 49), Mask1F)),
           Sym(And64(Shr(word1, 44), Mask1F)),
           Sym(And64(Shr(word1, 39), Mask1F)),
           Sym(And64(Shr(word1, 34), Mask1F)),
           Sym(And64(Shr(word1, 29), Mask1F)),
           Sym(And64(Shr(word1, 24), Mask1F)),
           Sym(And64(Shr(word1, 19), Mask1F)),
           Sym(And64(Shr(word1, 14), Mask1F)),
           Sym(And64(Shr(word1, 9), Mask1F)),
           Sym(And64(Shr(word1, 4), Mask1F)),
           Sym(Or64(Shl(And64(word1, Mask0F), 1), Shr(U64(d(8)), 7))),
           Sym(Shr(word2, 59)),
           Sym(And64(Shr(word2, 54), Mask1F)),
           Sym(And64(Shr(word2, 49), Mask1F)),
           Sym(And64(Shr(word2, 44), Mask1F)),
           Sym(And64(Shr(word2, 39), Mask1F)),
           Sym(And64(Shr(word2, 34), Mask1F)),
           Sym(And64(Shr(word2, 29), Mask1F)),
           Sym(And64(Shr(word2, 24), Mask1F)),
           Sym(And64(Shr(word2, 19), Mask1F)),
           Sym(And64(Shr(word2, 14), Mask1F)),
           Sym(And64(Shr(word2, 9), Mask1F)),
           Sym(And64(Shr(word2, 4), Mask1F)),
           Sym(And64(Shl(word2, 1), Mask1F)) >>

\* ------------------------------------------------------------------------
\* ultraFastDecode: string -> ([16]byte, error)
\* ------------------------------------------------------------------------
NoErr == "nil"
ErrLength == "invalid ULID length"
ErrCharacter == "invalid character in ULID"
ErrTimestamp == "timestamp out of range"
ErrExhausted == "timestamp out of range due to randomness exhaustion"
ErrRandom == "rand.Read failed"

ZeroData == [i \in 1..totalBytes |-> 0]

\* one 8-character chunk: acc and the five bytes taken from it
Chunk(s, from) ==
    LET v(i) == U64(decodeTable[s[from + i + 1]])
        acc == Or64(Shl(v(0), 35), Or64(Shl(v(1), 30), Or64(Shl(v(2), 25),
               Or64(Shl(v(3), 20), Or64(Shl(v(4), 15), Or64(Shl(v(5), 10),
               Or64(Shl(v(6), 5), v(7))))))))
    IN  << ToByte(Shr(acc, 32)), ToByte(Shr(acc, 24)), ToByte(Shr(acc, 16)),
           ToByte(Shr(acc, 8)), ToByte(acc) >>

\* faulty variant: `if len(s) < encodedLength`
ultraFastDecodeShortOnly(s) ==
    IF Len(s) < encodedLength
    THEN [data |-> ZeroData, err |-> ErrLength]
    ELSE IF \E i \in 1..encodedLength : s[i] >= 256 \/ decodeTable[s[i]] = 255
    THEN [data |-> ZeroData, err |-> ErrCharacter]
    ELSE [data |-> Chunk(s, 0) \o Chunk(s, 8) \o Chunk(s, 16) \o
                   << ToByte(Or64(Shl(U64(decodeTable[s[25]]), 3),
                                  Shr(U64(decodeTable[s[26]]), 2))) >>,
          err |-> NoErr]

\* faulty variant: the characters are validated before the length is checked
ultraFastDecodeCharsFirst(s) ==
    IF \E i \in 1..Len(s) : s[i] >= 256 \/ decodeTable[s[i]] = 255
    THEN [data |-> ZeroData, err |-> ErrCharacter]
    ELSE IF Len(s) # encodedLength
    THEN [data |-> ZeroData, err |-> ErrLength]
    ELSE [data |-> Chunk(s, 0) \o Chunk(s, 8) \o Chunk(s, 16) \o
                   << ToByte(Or64(Shl(U64(decodeTable[s[25]]), 3),
                                  Shr(U64(decodeTable[s[26]]), 2))) >>,
          err |-> NoErr]

\* faulty variant: the last byte takes the 26th symbol shifted by 3 instead of 2
ultraFastDecodeLastShift(s) ==
    IF Len(s) # encodedLength
    THEN [data |-> ZeroData, err |-> ErrLength]
    ELSE IF \E i \in 1..encodedLength : s[i] >= 256 \/ decodeTable[s[i]] = 255
    THEN [data |-> ZeroData, err |-> ErrCharacter]
    ELSE [data |-> Chunk(s, 0) \o Chunk(s, 8) \o Chunk(s, 16) \o
                   << ToByte(Or64(Shl(U64(decodeTable[s[25]]), 3),
                                  Shr(U64(decodeTable[s[26]]), 3))) >>,
          err |-> NoErr]

\* faulty variant: a 26th symbol with non-zero low 2 bits is rejected
ultraFastDecodeStrictLast(s) ==
    IF Len(s) # encodedLength
    THEN [data |-> ZeroData, err |-> ErrLength]
    ELSE IF \E i \in 1..encodedLength : s[i] >= 256 \/ decodeTable[s[i]] = 255
    THEN [data |-> ZeroData, err |-> ErrCharacter]
    ELSE IF decodeTable[s[26]] % 4 # 0
    THEN [data |-> ZeroData, err |-> ErrCharacter]
    ELSE [data |-> Chunk(s, 0) \o Chunk(s, 8) \o Chunk(s, 16) \o
                   << ToByte(Or64(Shl(U64(decodeTable[s[25]]), 3),
                                  Shr(U64(decodeTable[s[26]]), 2))) >>,
          err |-> NoErr]

ultraFastDecode(s) ==
    IF Len(s) # encodedLength
    THEN [data |-> ZeroData, err |-> ErrLength]
    ELSE IF \E i \in 1..encodedLength : s[i] >= 256 \/ decodeTable[s[i]] = 255
    THEN [data |-> ZeroData, err |-> ErrCharacter]
    ELSE [data |-> Chunk(s, 0) \o Chunk(s, 8) \o Chunk(s, 16) \o
                   << ToByte(Or64(Shl(U64(decodeTable[s[25]]), 3),
                                  Shr(U64(decodeTable[s[26]]), 2))) >>,
          err |-> NoErr]

\* ------------------------------------------------------------------------
\* ULID, String, Parse, GetTime
\* ------------------------------------------------------------------------
ZeroRandomness == [i \in 1..randomnessBytes |-> 0]
ZeroTime == [i \in 1..8 |-> 0]
ZeroULID == [timestamp |-> ZeroTime, randomness |-> ZeroRandomness]

String(u) ==
    LET t == u.timestamp
    IN  ultraFastEncode(<< ToByte(Shr(t, 40)), ToByte(Shr(t, 32)),
                           ToByte(Shr(t, 24)), ToByte(Shr(t, 16)),
                           ToByte(Shr(t, 8)), ToByte(t) >> \o u.randomness)

Parse(s) ==
    LET dec == ultraFastDecode(s)
        d(i) == U64(dec.data[i + 1])
        ts == Or64(Shl(d(0), 40), Or64(Shl(d(1), 32), Or64(Shl(d(2), 24),
              Or64(Shl(d(3), 16), Or64(Shl(d(4), 8), d(5))))))
    IN  IF dec.err # NoErr
        THEN [ulid |-> ZeroULID, err |-> dec.err]
        ELSE [ulid |-> [timestamp |-> ts,
                        randomness |-> SubSeq(dec.data, timestampBytes + 1, totalBytes)],
              err |-> NoErr]

GetTime(u) == u.timestamp

\* ------------------------------------------------------------------------
\* uint64 and byte-array arithmetic used by the generator
\* ------------------------------------------------------------------------
\* (1 << timestampBits) - 1 as a uint64
maxTimestamp == << 0, 0, 255, 255, 255, 255, 255, 255 >>

\* a < b and a > b for unsigned big-endian byte tuples of equal length
LessBytes(a, b) ==
    \E i \in 1..Len(a) : /\ a[i] < b[i]
                         /\ \A j \in 1..(i - 1) : a[j] = b[j]
GreaterBytes(a, b) == LessBytes(b, a)

\* Go's s1 < s2 on strings: byte-wise, a proper prefix is smaller
LessString(s1, s2) ==
    \/ \E i \in 1..Len(s1) : /\ i <= Len(s2)
                             /\ s1[i] < s2[i]
                             /\ \A j \in 1..(i - 1) : s1[j] = s2[j]
    \/ /\ Len(s1) < Len(s2)
       /\ \A j \in 1..Len(s1) : s1[j] = s2[j]

\* r[i]++ on a byte (wraps at 256); i is the Go index
IncByte(r, i) == [r EXCEPT ![i + 1] = (r[i + 1] + 1) % 256]

\* timestamp++ on a uint64 (wraps at 2^64)
RECURSIVE IncU64From(_, _)
IncU64From(t, i) ==
    IF i = 0 THEN t
    ELSE IF t[i] = 255 THEN IncU64From([t EXCEPT ![i] = 0], i - 1)
    ELSE [t EXCEPT ![i] = t[i] + 1]

\* faulty variant: timestamp += 2
IncU64Twice(t) == IncU64From(IncU64From(t, 8), 8)

IncU64(t) == IncU64From(t, 8)

\* the inline comparison loop of NewTime: the value of needIncrement after
\* the loop, started at Go index i with needIncrement = need
RECURSIVE NeedIncrementFrom(_, _, _, _)
NeedIncrementFrom(r, last, i, need) ==
    IF ~(i < randomnessBytes /\ need) THEN need
    ELSE IF r[i + 1] > last[i + 1] THEN NeedIncrementFrom(r, last, i + 1, FALSE)
    ELSE IF r[i + 1] < last[i + 1] THEN TRUE
    ELSE NeedIncrementFrom(r, last, i + 1, need)

\* faulty variant: needIncrement only when the drawn value is smaller
NeedIncrementStrict(r, last) == LessBytes(r, last)

NeedIncrement(r, last) == NeedIncrementFrom(r, last, 0, TRUE)

\* faulty variant: only randomness[9]++, no carry
UnrolledIncrementNoCarry(last) == [randomness |-> IncByte(last, 9), overflow |-> FALSE]

\* faulty variant: the copy of lastRandomness is not incremented
UnrolledIncrementNone(last) == [randomness |-> last, overflow |-> FALSE]

\* the unrolled increment of NewTime: copy(randomness, lastRandomness), then
\* randomness[9]++ and the nested carries; overflow is the innermost branch
UnrolledIncrement(last) ==
    LET r9 == IncByte(last, 9)
        r8 == IncByte(r9, 8)
        r7 == IncByte(r8, 7)
        r6 == IncByte(r7, 6)
        r5 == IncByte(r6, 5)
        r4 == IncByte(r5, 4)
        r3 == IncByte(r4, 3)
        r2 == IncByte(r3, 2)
        r1 == IncByte(r2, 1)
        r0 == IncByte(r1, 0)
        Res(r, o) == [randomness |-> r, overflow |-> o]
    IN  IF r9[10] # 0 THEN Res(r9, FALSE)
        ELSE IF r8[9] # 0 THEN Res(r8, FALSE)
        ELSE IF r7[8] # 0 THEN Res(r7, FALSE)
        ELSE IF r6[7] # 0 THEN Res(r6, FALSE)
        ELSE IF r5[6] # 0 THEN Res(r5, FALSE)
        ELSE IF r4[5] # 0 THEN Res(r4, FALSE)
        ELSE IF r3[4] # 0 THEN Res(r3, FALSE)
        ELSE IF r2[3] # 0 THEN Res(r2, FALSE)
        ELSE IF r1[2] # 0 THEN Res(r1, FALSE)
        ELSE IF r0[1] # 0 THEN Res(r0, FALSE)
        ELSE Res(r0, TRUE)

\* faulty variant: data[5] = byte(timestamp >> 8)
NewTimeEncodeShifted(t, r) ==
    ultraFastEncode(<< ToByte(Shr(t, 40)), ToByte(Shr(t, 32)),
                       ToByte(Shr(t, 24)), ToByte(Shr(t, 16)),
                       ToByte(Shr(t, 8)), ToByte(Shr(t, 8)) >> \o r)

\* the tail of NewTime: data[0..5] from timestamp, data[6..] from randomness
NewTimeEncode(t, r) ==
    ultraFastEncode(<< ToByte(Shr(t, 40)), ToByte(Shr(t, 32)),
                       ToByte(Shr(t, 24)), ToByte(Shr(t, 16)),
                       ToByte(Shr(t, 8)), ToByte(t) >> \o r)

\* ------------------------------------------------------------------------
\* Bounds and input sets
\* ------------------------------------------------------------------------
NumThreads == 2
MaxCalls == 3

Threads == 1..NumThreads

\* the timestamps handed to NewTime: the smallest, the largest in range and
\* the first out of range
TimeInputs == {ZeroTime, maxTimestamp, IncU64(maxTimestamp)}

\* the randomness whose last k bytes are 0xFF and whose other bytes are 0:
\* incrementing it carries through k bytes; k = 10 is all-ones
Ones(k) == [i \in 1..randomnessBytes |-> IF i > randomnessBytes - k THEN 255 ELSE 0]
MaxRandomness == Ones(randomnessBytes)

\* what generateRandomness may return: all-zero or all-ones
RandInputs == {ZeroRandomness, MaxRandomness}

\* Every (timestamp, randomness) the bounded generator can issue: an input
\* timestamp or its successor, an input randomness or one of its first
\* MaxCalls successors.  NewTimeEncode is evaluated once per pair here and
\* looked up by the Encode step (an application outside the table is an error).
RECURSIVE AddN(_, _)
AddN(r, n) == IF n = 0 THEN r ELSE AddN(UnrolledIncrement(r).randomness, n - 1)
IssuableTimes == TimeInputs \cup {IncU64(t) : t \in TimeInputs}
IssuableRandomness == {AddN(r, n) : r \in RandInputs \cup {ZeroRandomness}, n \in 0..MaxCalls}
EncodeTable ==
    {<< p, NewTimeEncode(p[1], p[2]) >> : p \in IssuableTimes \X IssuableRandomness}
EncodeLookup(t, r) == (CHOOSE e \in EncodeTable : e[1] = << t, r >>)[2]

\* Parse of every string of EncodeTable, evaluated once and looked up
ParseTable == {<< e[2], Parse(e[2]) >> : e \in EncodeTable}
ParseLookup(s) == (CHOOSE d \in ParseTable : d[1] = s)[2]

genVars == << lastTime, lastRandomness, mutex, pc, timestamp, randomness, ret,
              call, log, ncalls >>

NoRet == [str |-> << >>, err |-> NoErr]
NoCall == [supplied |-> ZeroTime, drawn |-> ZeroRandomness,
           foundTime |-> ZeroTime, foundRandomness |-> ZeroRandomness,
           draws |-> 0, wrote |-> FALSE, slot |-> 0,
           redrawn |-> ZeroRandomness]

\* faulty variant: lastTime starts at a "never issued" value above maxTimestamp
GenInitNeverIssued ==
    /\ lastTime = IncU64(maxTimestamp)
    /\ lastRandomness = ZeroRandomness
    /\ mutex = 0
    /\ pc = [t \in Threads |-> "idle"]
    /\ timestamp = [t \in Threads |-> ZeroTime]
    /\ randomness = [t \in Threads |-> ZeroRandomness]
    /\ ret = [t \in Threads |-> NoRet]
    /\ call = [t \in Threads |-> NoCall]
    /\ log = << >>
    /\ ncalls = 0

GenInit ==
    /\ lastTime = ZeroTime
    /\ lastRandomness = ZeroRandomness
    /\ mutex = 0
    /\ pc = [t \in Threads |-> "idle"]
    /\ timestamp = [t \in Threads |-> ZeroTime]
    /\ randomness = [t \in Threads |-> ZeroRandomness]
    /\ ret = [t \in Threads |-> NoRet]
    /\ call = [t \in Threads |-> NoCall]
    /\ log = << >>
    /\ ncalls = 0

\* ------------------------------------------------------------------------
\* NewTime, step by step
\* ------------------------------------------------------------------------
\* a thread that is not inside NewTime; a new call takes the lowest such thread
Free(t) == pc[t] \in {"idle", "done"}

\* the entry into NewTime(ts): fresh locals
Enter(t, ts) ==
    /\ Free(t)
    /\ \A u \in 1..(t - 1) : ~Free(u)
    /\ ncalls < MaxCalls
    /\ ncalls' = ncalls + 1
    /\ timestamp' = [timestamp EXCEPT ![t] = ts]

\* faulty variant: `if timestamp >= maxTimestamp`
OutOfRangeInclusive(ts) == ~LessBytes(ts, maxTimestamp)

\* `timestamp > maxTimestamp`
OutOfRange(ts) == GreaterBytes(ts, maxTimestamp)

\* `if timestamp > maxTimestamp { return "", errors.New(...) }`
CallOutOfRange(t, ts) ==
    /\ Enter(t, ts)
    /\ OutOfRange(ts)
    /\ randomness' = [randomness EXCEPT ![t] = ZeroRandomness]
    /\ call' = [call EXCEPT ![t] = [NoCall EXCEPT !.supplied = ts]]
    /\ ret' = [ret EXCEPT ![t] = [str |-> << >>, err |-> ErrTimestamp]]
    /\ pc' = [pc EXCEPT ![t] = "done"]
    /\ UNCHANGED << lastTime, lastRandomness, mutex, log >>

\* the range check passes; randomness, err := generateRandomness() with
\* err == nil
CallDraw(t, ts, r) ==
    /\ Enter(t, ts)
    /\ ~OutOfRange(ts)
    /\ randomness' = [randomness EXCEPT ![t] = r]
    /\ call' = [call EXCEPT ![t] = [NoCall EXCEPT !.supplied = ts, !.drawn = r,
                                                  !.draws = 1]]
    /\ ret' = [ret EXCEPT ![t] = NoRet]
    /\ pc' = [pc EXCEPT ![t] = "lock"]
    /\ UNCHANGED << lastTime, lastRandomness, mutex, log >>

\* the range check passes; generateRandomness() fails: return "", err
CallDrawFail(t, ts) ==
    /\ Enter(t, ts)
    /\ ~OutOfRange(ts)
    /\ randomness' = [randomness EXCEPT ![t] = ZeroRandomness]
    /\ call' = [call EXCEPT ![t] = [NoCall EXCEPT !.supplied = ts, !.draws = 1]]
    /\ ret' = [ret EXCEPT ![t] = [str |-> << >>, err |-> ErrRandom]]
    /\ pc' = [pc EXCEPT ![t] = "done"]
    /\ UNCHANGED << lastTime, lastRandomness, mutex, log >>

\* faulty variant: the call does not wait for the mutex
LockNoWait(t) ==
    /\ pc[t] = "lock"
    /\ mutex' = t
    /\ pc' = [pc EXCEPT ![t] = "cs"]
    /\ UNCHANGED << lastTime, lastRandomness, timestamp, randomness, ret, call, log, ncalls >>

\* mutex.Lock()
Lock(t) ==
    /\ pc[t] = "lock"
    /\ mutex = 0
    /\ mutex' = t
    /\ pc' = [pc EXCEPT ![t] = "cs"]
    /\ UNCHANGED << lastTime, lastRandomness, timestamp, randomness, ret, call, log, ncalls >>

\* faulty variant: no range check after timestamp++
ExhaustedNever(ts) == FALSE

\* `if timestamp > maxTimestamp` after timestamp++
\* faulty variant: `if timestamp >= maxTimestamp` after timestamp++
ExhaustedInclusive(ts) == ~LessBytes(ts, maxTimestamp)

\* faulty variant: every carry into the timestamp is reported as exhaustion
ExhaustedAtRollover(ts) == TRUE

Exhausted(ts) == GreaterBytes(ts, maxTimestamp)

\* faulty variant: the randomness is compared whatever the timestamp is
CriticalAnyTime(t) ==
    /\ pc[t] = "cs"
    /\ call' = [call EXCEPT ![t].foundTime = lastTime,
                            ![t].foundRandomness = lastRandomness]
    /\ LET inc == UnrolledIncrement(lastRandomness)
       IN  IF NeedIncrement(randomness[t], lastRandomness)
           THEN /\ randomness' = [randomness EXCEPT ![t] = inc.randomness]
                /\ IF inc.overflow
                   THEN /\ timestamp' = [timestamp EXCEPT ![t] = IncU64(timestamp[t])]
                        /\ pc' = [pc EXCEPT ![t] =
                                    IF Exhausted(IncU64(timestamp[t]))
                                    THEN "exhausted" ELSE "redraw"]
                   ELSE /\ pc' = [pc EXCEPT ![t] = "store"]
                        /\ UNCHANGED timestamp
           ELSE /\ pc' = [pc EXCEPT ![t] = "store"]
                /\ UNCHANGED << timestamp, randomness >>
    /\ UNCHANGED << lastTime, lastRandomness, mutex, ret, log, ncalls >>

\* `if timestamp == lastTime { ... }` up to the re-draw
Critical(t) ==
    /\ pc[t] = "cs"
    /\ call' = [call EXCEPT ![t].foundTime = lastTime,
                            ![t].foundRandomness = lastRandomness]
    /\ LET inc == UnrolledIncrement(lastRandomness)
       IN  IF timestamp[t] = lastTime /\ NeedIncrement(randomness[t], lastRandomness)
           THEN /\ randomness' = [randomness EXCEPT ![t] = inc.randomness]
                /\ IF inc.overflow
                   THEN /\ timestamp' = [timestamp EXCEPT ![t] = IncU64(timestamp[t])]
                        /\ pc' = [pc EXCEPT ![t] =
                                    IF Exhausted(IncU64(timestamp[t]))
                                    THEN "exhausted" ELSE "redraw"]
                   ELSE /\ pc' = [pc EXCEPT ![t] = "store"]
                        /\ UNCHANGED timestamp
           ELSE /\ pc' = [pc EXCEPT ![t] = "store"]
                /\ UNCHANGED << timestamp, randomness >>
    /\ UNCHANGED << lastTime, lastRandomness, mutex, ret, log, ncalls >>

\* what the log keeps of a call that went through the critical section
LogEntry(t, outcome) ==
    [thread |-> t,
     supplied |-> call[t].supplied,
     foundTime |-> call[t].foundTime,
     foundRandomness |-> call[t].foundRandomness,
     outcome |-> outcome,
     timestamp |-> timestamp[t],
     randomness |-> randomness[t],
     str |-> << >>]

\* faulty variant: lastTime is stored before the exhaustion error is returned
ExhaustedReturnStoring(t) ==
    /\ pc[t] = "exhausted"
    /\ lastTime' = timestamp[t]
    /\ mutex' = 0
    /\ ret' = [ret EXCEPT ![t] = [str |-> << >>, err |-> ErrExhausted]]
    /\ log' = Append(log, LogEntry(t, ErrExhausted))
    /\ pc' = [pc EXCEPT ![t] = "done"]
    /\ UNCHANGED << lastRandomness, timestamp, randomness, call, ncalls >>

\* timestamp > maxTimestamp after the rollover: mutex.Unlock(); return "", error
ExhaustedReturn(t) ==
    /\ pc[t] = "exhausted"
    /\ mutex' = 0
    /\ ret' = [ret EXCEPT ![t] = [str |-> << >>, err |-> ErrExhausted]]
    /\ log' = Append(log, LogEntry(t, ErrExhausted))
    /\ pc' = [pc EXCEPT ![t] = "done"]
    /\ UNCHANGED << lastTime, lastRandomness, timestamp, randomness, call, ncalls >>

\* faulty variant: the re-drawn value is dropped, the wrapped randomness stays
RedrawKeepsWrapped(t, r) ==
    /\ pc[t] = "redraw"
    /\ call' = [call EXCEPT ![t].draws = 2, ![t].redrawn = r]
    /\ pc' = [pc EXCEPT ![t] = "store"]
    /\ UNCHANGED << lastTime, lastRandomness, mutex, timestamp, randomness, ret, log, ncalls >>

\* the re-draw after the rollover, err == nil
Redraw(t, r) ==
    /\ pc[t] = "redraw"
    /\ randomness' = [randomness EXCEPT ![t] = r]
    /\ call' = [call EXCEPT ![t].draws = 2, ![t].redrawn = r]
    /\ pc' = [pc EXCEPT ![t] = "store"]
    /\ UNCHANGED << lastTime, lastRandomness, mutex, timestamp, ret, log, ncalls >>

\* faulty variant: the error is returned without mutex.Unlock()
RedrawFailKeepsLock(t) ==
    /\ pc[t] = "redraw"
    /\ call' = [call EXCEPT ![t].draws = 2]
    /\ ret' = [ret EXCEPT ![t] = [str |-> << >>, err |-> ErrRandom]]
    /\ log' = Append(log, LogEntry(t, ErrRandom))
    /\ pc' = [pc EXCEPT ![t] = "done"]
    /\ UNCHANGED << lastTime, lastRandomness, mutex, timestamp, randomness, ncalls >>

\* the re-draw after the rollover, err != nil: mutex.Unlock(); return "", err
RedrawFail(t) ==
    /\ pc[t] = "redraw"
    /\ call' = [call EXCEPT ![t].draws = 2]
    /\ mutex' = 0
    /\ ret' = [ret EXCEPT ![t] = [str |-> << >>, err |-> ErrRandom]]
    /\ log' = Append(log, LogEntry(t, ErrRandom))
    /\ pc' = [pc EXCEPT ![t] = "done"]
    /\ UNCHANGED << lastTime, lastRandomness, timestamp, randomness, ncalls >>

\* faulty variant: only lastTime is stored
StoreTimeOnly(t) ==
    /\ pc[t] = "store"
    /\ lastTime' = timestamp[t]
    /\ log' = Append(log, LogEntry(t, NoErr))
    /\ call' = [call EXCEPT ![t].wrote = TRUE, ![t].slot = Len(log) + 1]
    /\ pc' = [pc EXCEPT ![t] = "unlock"]
    /\ UNCHANGED << lastRandomness, mutex, timestamp, randomness, ret, ncalls >>

\* lastTime = timestamp; lastRandomness = randomness
Store(t) ==
    /\ pc[t] = "store"
    /\ lastTime' = timestamp[t]
    /\ lastRandomness' = randomness[t]
    /\ log' = Append(log, LogEntry(t, NoErr))
    /\ call' = [call EXCEPT ![t].wrote = TRUE, ![t].slot = Len(log) + 1]
    /\ pc' = [pc EXCEPT ![t] = "unlock"]
    /\ UNCHANGED << mutex, timestamp, randomness, ret, ncalls >>

\* mutex.Unlock() on the success path
Unlock(t) ==
    /\ pc[t] = "unlock"
    /\ mutex' = 0
    /\ pc' = [pc EXCEPT ![t] = "encode"]
    /\ UNCHANGED << lastTime, lastRandomness, timestamp, randomness, ret, call, log, ncalls >>

\* the encoding outside the lock and `return ultraFastEncode(data), nil`
Encode(t) ==
    /\ pc[t] = "encode"
    /\ LET s == EncodeLookup(timestamp[t], randomness[t])
       IN  /\ ret' = [ret EXCEPT ![t] = [str |-> s, err |-> NoErr]]
           /\ log' = [log EXCEPT ![call[t].slot].str = s]
    /\ pc' = [pc EXCEPT ![t] = "done"]
    /\ UNCHANGED << lastTime, lastRandomness, mutex, timestamp, randomness, call, ncalls >>

\* ------------------------------------------------------------------------
\* Codec runs: String then Parse on chosen ULID values
\* ------------------------------------------------------------------------
codecVars == << cin, cstr, cres, cphase >>
parseVars == << text, edits, parsed >>
incVars == << incArg, incRes >>
helperVars == << hLastTime, hLastRandomness, hret >>
auxVars == << incVars, helperVars >>
vars == << genVars, codecVars, parseVars, auxVars >>

NoParse == [ulid |-> ZeroULID, err |-> NoErr]

\* the generator, the codec run and the parse run at rest
GenIdle == GenInit
CodecIdle ==
    /\ cin = << ZeroULID, ZeroULID >>
    /\ cstr = << << >>, << >> >>
    /\ cres = NoParse
    /\ cphase = "idle"
ParseIdle ==
    /\ text = << >>
    /\ edits = 0
    /\ parsed = << >>

\* no increment has been computed; the helper-based generator is fresh
NoInc == [unrolled |-> << >>, helper |-> << >>]
IncIdle ==
    /\ incArg = ZeroRandomness
    /\ incRes = NoInc
HelperIdle ==
    /\ hLastTime = ZeroTime
    /\ hLastRandomness = ZeroRandomness
    /\ hret = [t \in Threads |-> NoRet]
AuxIdle == IncIdle /\ HelperIdle

\* the 16-byte value with only bit k set (bit 0 is the top bit of byte 0)
OneHot(k) == [i \in 1..totalBytes |-> IF i = (k \div 8) + 1 THEN Pow2[7 - (k % 8)] ELSE 0]

\* the ULID whose binary form is the 16-byte value b
ULIDOf(b) == [timestamp |-> << 0, 0 >> \o SubSeq(b, 1, timestampBytes),
              randomness |-> SubSeq(b, timestampBytes + 1, totalBytes)]

\* the binary form of a ULID: 6-byte big-endian timestamp, then the randomness
Binary(u) == SubSeq(u.timestamp, 3, 8) \o u.randomness

ValidTimes == {t \in TimeInputs : ~GreaterBytes(t, maxTimestamp)}
CornerULIDs == {[timestamp |-> t, randomness |-> r] : t \in ValidTimes, r \in RandInputs}
CodecInputs1 == {ULIDOf(OneHot(k)) : k \in 0..(8 * totalBytes - 1)} \cup CornerULIDs
CodecInputs2 == {ULIDOf(OneHot(8 * k)) : k \in 0..(totalBytes - 1)} \cup CornerULIDs

CodecInit ==
    /\ cin \in CodecInputs1 \X CodecInputs2
    /\ cstr = << << >>, << >> >>
    /\ cres = NoParse
    /\ cphase = "input"

\* s1 := u1.String(); s2 := u2.String()
CodecString ==
    /\ cphase = "input"
    /\ cstr' = [k \in 1..2 |-> String(cin[k])]
    /\ cphase' = "encoded"
    /\ UNCHANGED << cin, cres >>

\* Parse(s1)
CodecParse ==
    /\ cphase = "encoded"
    /\ cres' = Parse(cstr[1])
    /\ cphase' = "parsed"
    /\ UNCHANGED << cin, cstr >>

\* the caller sets low bits of the 26th symbol of s1: s2 := s1 with its last
\* symbol replaced by the symbol whose value is greater by b
CodecSetLowBits(b) ==
    /\ cphase = "parsed"
    /\ cstr' = [cstr EXCEPT ![2] =
                  [cstr[1] EXCEPT ![encodedLength] =
                      encodeTable[decodeTable[cstr[1][encodedLength]] + b + 1]]]
    /\ cphase' = "lenient"
    /\ UNCHANGED << cin, cres >>

\* Parse(s2)
CodecParseLenient ==
    /\ cphase = "lenient"
    /\ cres' = Parse(cstr[2])
    /\ cphase' = "reparsed"
    /\ UNCHANGED << cin, cstr >>

CodecNext ==
    \/ CodecString /\ UNCHANGED << genVars, parseVars, auxVars >>
    \/ CodecParse /\ UNCHANGED << genVars, parseVars, auxVars >>
    \/ \E b \in 1..3 : CodecSetLowBits(b) /\ UNCHANGED << genVars, parseVars, auxVars >>
    \/ CodecParseLenient /\ UNCHANGED << genVars, parseVars, auxVars >>

CodecStart == GenIdle /\ CodecInit /\ ParseIdle /\ AuxIdle

CodecSpec == CodecStart /\ [][CodecNext]_vars

\* ------------------------------------------------------------------------
\* Parse runs: Parse on strings typed by a caller
\* ------------------------------------------------------------------------
MaxEdits == 2

\* c - 'a' + 'A' for a lowercase letter, and its inverse
UpperByte(c) == IF c >= 97 /\ c <= 122 THEN c - 97 + 65 ELSE c
LowerByte(c) == IF c >= 65 /\ c <= 90 THEN c - 65 + 97 ELSE c
ToUpper(s) == [i \in 1..Len(s) |-> UpperByte(s[i])]
ToLower(s) == [i \in 1..Len(s) |-> LowerByte(s[i])]

\* the strings a parse run starts from, the positions it retypes (first
\* symbol, the two symbols around the word1/word2 seam, last symbol) and the
\* characters it types: 0 1 - A I L O U V Z i l o u v z
ParseSeeds == {String([timestamp |-> t, randomness |-> MaxRandomness]) : t \in ValidTimes}
EditPositions == {1, 13, 14, 26}
EditChars == {48, 49, 45, 65, 73, 76, 79, 85, 86, 90, 105, 108, 111, 117, 118, 122}

\* "invalid-ulid-string", the argument of TestULIDInvalidParsing
InvalidString ==
    << 105, 110, 118, 97, 108, 105, 100, 45, 117, 108, 105, 100, 45,
       115, 116, 114, 105, 110, 103 >>

\* the characters a caller appends: 0 -
AppendChars == {48, 45}

ParseInit ==
    /\ text \in ParseSeeds \cup {InvalidString}
    /\ edits = 0
    /\ parsed = << >>

\* the caller changes one character of the string
Retype(i, c) ==
    /\ parsed = << >>
    /\ edits < MaxEdits
    /\ i <= Len(text)
    /\ text[i] # c
    /\ text' = [text EXCEPT ![i] = c]
    /\ edits' = edits + 1
    /\ UNCHANGED parsed

\* the caller drops the last character of the string
DropLast ==
    /\ parsed = << >>
    /\ edits < MaxEdits
    /\ Len(text) > 0
    /\ text' = SubSeq(text, 1, Len(text) - 1)
    /\ edits' = edits + 1
    /\ UNCHANGED parsed

\* the caller appends a character to the string
AppendChar(c) ==
    /\ parsed = << >>
    /\ edits < MaxEdits
    /\ text' = Append(text, c)
    /\ edits' = edits + 1
    /\ UNCHANGED parsed

\* the character a Crockford alias stands for: I i L l -> 1, O o -> 0,
\* U u -> V
Unalias(c) ==
    CASE c \in {73, 105, 76, 108} -> 49
      [] c \in {79, 111} -> 48
      [] c \in {85, 117} -> 86
      [] OTHER -> c

\* s as written, strings.ToUpper(s), strings.ToLower(s), s without aliases
Variant(v, s) ==
    CASE v = "plain" -> s
      [] v = "upper" -> ToUpper(s)
      [] v = "lower" -> ToLower(s)
      [] v = "canon" -> [i \in 1..Len(s) |-> Unalias(s[i])]

\* Parse(text), Parse(strings.ToUpper(text)), Parse(strings.ToLower(text)),
\* Parse(text without aliases)
ParseText ==
    /\ parsed = << >>
    /\ parsed' = [v \in {"plain", "upper", "lower", "canon"} |-> Parse(Variant(v, text))]
    /\ UNCHANGED << text, edits >>

ParseNext ==
    \/ \E i \in EditPositions, c \in EditChars :
          Retype(i, c) /\ UNCHANGED << genVars, codecVars, auxVars >>
    \/ DropLast /\ UNCHANGED << genVars, codecVars, auxVars >>
    \/ \E c \in AppendChars : AppendChar(c) /\ UNCHANGED << genVars, codecVars, auxVars >>
    \/ ParseText /\ UNCHANGED << genVars, codecVars, auxVars >>

ParseStart == GenIdle /\ CodecIdle /\ ParseInit /\ AuxIdle

ParseSpec == ParseStart /\ [][ParseNext]_vars

\* ------------------------------------------------------------------------
\* The generator specification
\* ------------------------------------------------------------------------
Init == GenInit /\ CodecIdle /\ ParseIdle /\ AuxIdle

Next ==
    \/ \E t \in Threads, ts \in TimeInputs :
          CallOutOfRange(t, ts) /\ UNCHANGED << codecVars, parseVars, auxVars >>
    \/ \E t \in Threads, ts \in TimeInputs, r \in RandInputs :
          CallDraw(t, ts, r) /\ UNCHANGED << codecVars, parseVars, auxVars >>
    \/ \E t \in Threads, ts \in TimeInputs :
          CallDrawFail(t, ts) /\ UNCHANGED << codecVars, parseVars, auxVars >>
    \/ \E t \in Threads : Lock(t) /\ UNCHANGED << codecVars, parseVars, auxVars >>
    \/ \E t \in Threads : Critical(t) /\ UNCHANGED << codecVars, parseVars, auxVars >>
    \/ \E t \in Threads : ExhaustedReturn(t) /\ UNCHANGED << codecVars, parseVars, auxVars >>
    \/ \E t \in Threads, r \in RandInputs :
          Redraw(t, r) /\ UNCHANGED << codecVars, parseVars, auxVars >>
    \/ \E t \in Threads : RedrawFail(t) /\ UNCHANGED << codecVars, parseVars, auxVars >>
    \/ \E t \in Threads : Store(t) /\ UNCHANGED << codecVars, parseVars, auxVars >>
    \/ \E t \in Threads : Unlock(t) /\ UNCHANGED << codecVars, parseVars, auxVars >>
    \/ \E t \in Threads : Encode(t) /\ UNCHANGED << codecVars, parseVars, auxVars >>

Spec == Init /\ [][Next]_vars

\* The draws of the fair runs: all-ones is the drawn value with which every
\* exit of NewTime is taken (accepted as greater, equal to lastRandomness and
\* carried into the timestamp, exhaustion at maxTimestamp).
FairRandInputs == {MaxRandomness}

FairNext ==
    \/ \E t \in Threads, ts \in TimeInputs :
          CallOutOfRange(t, ts) /\ UNCHANGED << codecVars, parseVars, auxVars >>
    \/ \E t \in Threads, ts \in TimeInputs, r \in FairRandInputs :
          CallDraw(t, ts, r) /\ UNCHANGED << codecVars, parseVars, auxVars >>
    \/ \E t \in Threads, ts \in TimeInputs :
          CallDrawFail(t, ts) /\ UNCHANGED << codecVars, parseVars, auxVars >>
    \/ \E t \in Threads : Lock(t) /\ UNCHANGED << codecVars, parseVars, auxVars >>
    \/ \E t \in Threads : Critical(t) /\ UNCHANGED << codecVars, parseVars, auxVars >>
    \/ \E t \in Threads : ExhaustedReturn(t) /\ UNCHANGED << codecVars, parseVars, auxVars >>
    \/ \E t \in Threads, r \in FairRandInputs :
          Redraw(t, r) /\ UNCHANGED << codecVars, parseVars, auxVars >>
    \/ \E t \in Threads : RedrawFail(t) /\ UNCHANGED << codecVars, parseVars, auxVars >>
    \/ \E t \in Threads : Store(t) /\ UNCHANGED << codecVars, parseVars, auxVars >>
    \/ \E t \in Threads : Unlock(t) /\ UNCHANGED << codecVars, parseVars, auxVars >>
    \/ \E t \in Threads : Encode(t) /\ UNCHANGED << codecVars, parseVars, auxVars >>

\* the steps of the call of thread t after mutex.Lock() returned: straight-line
\* code, none of them waits
Step(t) ==
    /\ \/ Critical(t)
       \/ ExhaustedReturn(t)
       \/ \E r \in FairRandInputs : Redraw(t, r)
       \/ RedrawFail(t)
       \/ Store(t)
       \/ Unlock(t)
       \/ Encode(t)
    /\ UNCHANGED << codecVars, parseVars, auxVars >>

\* mutex.Lock() of thread t returning
Acquire(t) == Lock(t) /\ UNCHANGED << codecVars, parseVars, auxVars >>

\* Fair scheduling: a goroutine that can run its next statement eventually
\* does (weak fairness of Step), and a goroutine waiting in mutex.Lock() is
\* not passed over forever while the mutex keeps being released (sync.Mutex
\* hands the lock to a starving waiter: strong fairness of Acquire).
FairSpec ==
    /\ Init
    /\ [][FairNext]_vars
    /\ \A t \in Threads : WF_vars(Step(t))
    /\ \A t \in Threads : SF_vars(Acquire(t))

\* generateRandomness() returned an error
DrawError == << >>

\* ------------------------------------------------------------------------
\* The helper functions of the helper-based NewTime
\* ------------------------------------------------------------------------
\* incrementRandomness(&r): the loop from i = randomnessBytes - 1 down to 0,
\* started at Go index i; randomness is *r afterwards, overflow the result
RECURSIVE incrementRandomnessFrom(_, _)
incrementRandomnessFrom(r, i) ==
    IF i < 0 THEN [randomness |-> r, overflow |-> TRUE]
    ELSE LET inc == IncByte(r, i)
         IN  IF inc[i + 1] # 0
             THEN [randomness |-> inc, overflow |-> FALSE]
             ELSE incrementRandomnessFrom(inc, i - 1)
incrementRandomness(r) == incrementRandomnessFrom(r, randomnessBytes - 1)

\* compareRandomness(a, b), the loop started at Go index i
RECURSIVE compareRandomnessFrom(_, _, _)
compareRandomnessFrom(a, b, i) ==
    IF ~(i < randomnessBytes) THEN 0
    ELSE IF a[i + 1] < b[i + 1] THEN -1
    ELSE IF a[i + 1] > b[i + 1] THEN 1
    ELSE compareRandomnessFrom(a, b, i + 1)
\* faulty variant: equal values compare as greater
compareRandomnessNeverEqual(a, b) ==
    IF compareRandomnessFrom(a, b, 0) = 0 THEN 1 ELSE compareRandomnessFrom(a, b, 0)

compareRandomness(a, b) == compareRandomnessFrom(a, b, 0)

\* fastEncode: the inner loop `for bits >= 5`, writing result[j]
RECURSIVE fastEncodeDrain(_, _, _, _)
fastEncodeDrain(acc, bits, j, result) ==
    IF bits >= 5
    THEN fastEncodeDrain(acc, bits - 5, j + 1,
             [result EXCEPT ![j + 1] =
                 encodeTable[ToIndex(And64(Shr(acc, bits - 5), Mask1F)) + 1]])
    ELSE [bits |-> bits, j |-> j, result |-> result]

\* fastEncode: the outer loop from Go index i, then the remaining bits
RECURSIVE fastEncodeFrom(_, _, _, _, _)
fastEncodeFrom(data, i, acc, bits, st) ==
    IF i < totalBytes
    THEN LET acc2 == Or64(Shl(acc, 8), U64(data[i + 1]))
             d == fastEncodeDrain(acc2, bits + 8, st.j, st.result)
         IN  fastEncodeFrom(data, i + 1, acc2, d.bits, d)
    ELSE IF bits > 0
         THEN [st.result EXCEPT ![st.j + 1] =
                  encodeTable[ToIndex(And64(Shl(acc, 5 - bits), Mask1F)) + 1]]
         ELSE st.result

fastEncode(data) ==
    fastEncodeFrom(data, 0, U64(0), 0,
                   [bits |-> 0, j |-> 0, result |-> [k \in 1..encodedLength |-> 0]])

\* ULID.String() of the helper-based version
HelperString(u) ==
    fastEncode([i \in 1..timestampBytes |->
                    ToByte(Shr(u.timestamp, 8 * (timestampBytes - i)))]
               \o u.randomness)

\* ------------------------------------------------------------------------
\* Increment runs: both increments applied to a chosen 10-byte value
\* ------------------------------------------------------------------------
\* the values incremented: k trailing 0xFF bytes, before them one byte
\* 0, 1, 127 or 254, and 0, 128 or 255 in every byte further up
IncInputs ==
    {[i \in 1..randomnessBytes |->
          IF i > randomnessBytes - k THEN 255
          ELSE IF i = randomnessBytes - k THEN a ELSE b] :
       k \in 0..randomnessBytes, a \in {0, 1, 127, 254}, b \in {0, 128, 255}}

IncInit ==
    /\ incArg \in IncInputs
    /\ incRes = NoInc

\* copy(randomness[:], lastRandomness[:]) and the unrolled increment of NewTime
IncUnrolled ==
    /\ incRes.unrolled = << >>
    /\ incRes' = [incRes EXCEPT !.unrolled = UnrolledIncrement(incArg)]
    /\ UNCHANGED incArg

\* randomness = lastRandomness; incrementRandomness(&randomness)
IncHelper ==
    /\ incRes.helper = << >>
    /\ incRes' = [incRes EXCEPT !.helper = incrementRandomness(incArg)]
    /\ UNCHANGED incArg

IncNext ==
    \/ IncUnrolled /\ UNCHANGED << genVars, codecVars, parseVars, helperVars >>
    \/ IncHelper /\ UNCHANGED << genVars, codecVars, parseVars, helperVars >>

IncStart == GenIdle /\ CodecIdle /\ ParseIdle /\ IncInit /\ HelperIdle

IncSpec == IncStart /\ [][IncNext]_vars

\* ------------------------------------------------------------------------
\* The helper-based NewTime, run next to the unrolled one
\* ------------------------------------------------------------------------
\* ulid.String() of every pair the bounded generator can issue, evaluated once
HelperEncodeTable ==
    {<< p, HelperString([timestamp |-> p[1], randomness |-> p[2]]) >> :
        p \in IssuableTimes \X IssuableRandomness}
HelperEncodeLookup(t, r) == (CHOOSE e \in HelperEncodeTable : e[1] = << t, r >>)[2]

\* The helper-based NewTime(ts) on the state (lt, lr). It holds the mutex
\* from its first statement to its return, so it is one step. r1 and r2 are
\* what its two calls of generateRandomness return (DrawError: an error).
NewTimeHelper(lt, lr, ts, r1, r2) ==
    LET Fail(e) == [ret |-> [str |-> << >>, err |-> e],
                    lastTime |-> lt, lastRandomness |-> lr]
        Issue(t2, r) == [ret |-> [str |-> HelperEncodeLookup(t2, r), err |-> NoErr],
                         lastTime |-> t2, lastRandomness |-> r]
        inc == incrementRandomness(lr)
    IN  IF GreaterBytes(ts, maxTimestamp) THEN Fail(ErrTimestamp)
        ELSE IF r1 = DrawError THEN Fail(ErrRandom)
        ELSE IF ts = lt /\ compareRandomness(r1, lr) <= 0
             THEN IF inc.overflow
                  THEN IF GreaterBytes(IncU64(ts), maxTimestamp) THEN Fail(ErrExhausted)
                       ELSE IF r2 = DrawError THEN Fail(ErrRandom)
                       ELSE Issue(IncU64(ts), r2)
                  ELSE Issue(ts, inc.randomness)
             ELSE Issue(ts, r1)

\* thread t calls the helper-based NewTime(ts)
HelperCall(t, ts, r1, r2) ==
    LET h == NewTimeHelper(hLastTime, hLastRandomness, ts, r1, r2)
    IN  /\ hLastTime' = h.lastTime
        /\ hLastRandomness' = h.lastRandomness
        /\ hret' = [hret EXCEPT ![t] = h.ret]

\* thread t has a call of the unrolled NewTime in progress whose counterpart
\* has not run yet
HelperPending(t) ==
    /\ hret' = [hret EXCEPT ![t] = NoRet]
    /\ UNCHANGED << hLastTime, hLastRandomness >>

\* Both generators are given the same calls with the same draws. The call of
\* the helper-based one runs when the unrolled one decides the outcome of its
\* call: at the failed range check or draw, at the store, at an error exit
\* inside the critical section.
EquivNext ==
    \/ \E t \in Threads, ts \in TimeInputs :
          /\ CallOutOfRange(t, ts)
          /\ HelperCall(t, ts, DrawError, DrawError)
          /\ UNCHANGED << codecVars, parseVars, incVars >>
    \/ \E t \in Threads, ts \in TimeInputs, r \in RandInputs :
          /\ CallDraw(t, ts, r)
          /\ HelperPending(t)
          /\ UNCHANGED << codecVars, parseVars, incVars >>
    \/ \E t \in Threads, ts \in TimeInputs :
          /\ CallDrawFail(t, ts)
          /\ HelperCall(t, ts, DrawError, DrawError)
          /\ UNCHANGED << codecVars, parseVars, incVars >>
    \/ \E t \in Threads : Lock(t) /\ UNCHANGED << codecVars, parseVars, auxVars >>
    \/ \E t \in Threads : Critical(t) /\ UNCHANGED << codecVars, parseVars, auxVars >>
    \/ \E t \in Threads :
          /\ ExhaustedReturn(t)
          /\ HelperCall(t, call[t].supplied, call[t].drawn, DrawError)
          /\ UNCHANGED << codecVars, parseVars, incVars >>
    \/ \E t \in Threads, r \in RandInputs :
          Redraw(t, r) /\ UNCHANGED << codecVars, parseVars, auxVars >>
    \/ \E t \in Threads :
          /\ RedrawFail(t)
          /\ HelperCall(t, call[t].supplied, call[t].drawn, DrawError)
          /\ UNCHANGED << codecVars, parseVars, incVars >>
    \/ \E t \in Threads :
          /\ Store(t)
          /\ HelperCall(t, call[t].supplied, call[t].drawn,
                        IF call[t].draws = 2 THEN call[t].redrawn ELSE DrawError)
          /\ UNCHANGED << codecVars, parseVars, incVars >>
    \/ \E t \in Threads : Unlock(t) /\ UNCHANGED << codecVars, parseVars, auxVars >>
    \/ \E t \in Threads : Encode(t) /\ UNCHANGED << codecVars, parseVars, auxVars >>

EquivSpec == Init /\ [][EquivNext]_vars

\* ------------------------------------------------------------------------
\* Properties
\* ------------------------------------------------------------------------
\* the successful calls, in lock order
OkLog == SelectSeq(log, LAMBDA e : e.outcome = NoErr)

\* the step in which the call of thread t returns
Returning(t) ==
    /\ pc'[t] = "done"
    /\ pc[t] # "done" \/ (ncalls' # ncalls /\ \A u \in 1..(t - 1) : ~Free(u))

\* (t1, r1) < (t2, r2) lexicographically
LessID(t1, r1, t2, r2) == LessBytes(t1 \o r1, t2 \o r2)

\* C1: if the timestamps supplied to the successful NewTime calls are
\* non-decreasing, each returned string is strictly greater (byte-wise) than
\* the string returned by the previous successful call.
C1_MonotonicStrings ==
    LET ok == OkLog
    IN  (\A i \in 1..(Len(ok) - 1) : ~GreaterBytes(ok[i].supplied, ok[i + 1].supplied))
        => \A i \in 1..(Len(ok) - 1) :
              (ok[i].str # << >> /\ ok[i + 1].str # << >>)
              => LessString(ok[i].str, ok[i + 1].str)

\* C2: when calls of different threads, all with the same timestamp T and
\* with no other call between them, take the mutex one after the other on a
\* generator whose lastTime is not above T, and all succeed, the strings they
\* return are distinct and strictly increasing in the order of taking the
\* mutex.
C2_ConcurrentSameTimestamp ==
    \A i, j \in DOMAIN log :
        ( /\ i < j
          /\ ~GreaterBytes(log[i].foundTime, log[i].supplied)
          /\ \A k \in i..j : /\ log[k].supplied = log[i].supplied
                             /\ log[k].outcome = NoErr
                             /\ log[k].str # << >>
          /\ \A k, l \in i..j : k # l => log[k].thread # log[l].thread )
        => LessString(log[i].str, log[j].str)

\* C3: of two identifiers issued by successful calls, the one whose call took
\* the mutex first is strictly smaller as a (timestamp, randomness) pair,
\* whatever timestamps were supplied.
C3_LockOrderIsTotalOrder ==
    \A i, j \in DOMAIN log :
        (i < j /\ log[i].outcome = NoErr /\ log[j].outcome = NoErr)
        => LessID(log[i].timestamp, log[i].randomness,
                  log[j].timestamp, log[j].randomness)

\* C4: a successful call with a supplied timestamp below lastTime issues an
\* identifier that does not carry the supplied timestamp and that is strictly
\* greater than the generator state (lastTime, lastRandomness) it found.
C4_BackwardClockClamped ==
    \A i \in DOMAIN log :
        (log[i].outcome = NoErr /\ LessBytes(log[i].supplied, log[i].foundTime))
        => /\ log[i].timestamp # log[i].supplied
           /\ LessID(log[i].foundTime, log[i].foundRandomness,
                     log[i].timestamp, log[i].randomness)

\* C5: NewTime(t) fails with the timestamp-out-of-range error exactly when
\* t > 2^48 - 1, in every generator state and before drawing or locking; the
\* first call to reach the critical section of a fresh generator succeeds and
\* issues the supplied timestamp.
C5_TimestampBoundary ==
    /\ \A t \in Threads :
          /\ pc[t] = "done"
                => (GreaterBytes(call[t].supplied, maxTimestamp)
                       <=> ret[t].err = ErrTimestamp)
          /\ pc[t] \notin {"idle", "done"}
                => ~GreaterBytes(call[t].supplied, maxTimestamp)
          /\ (pc[t] = "done" /\ call[t].slot = 1)
                => /\ ret[t].err = NoErr
                   /\ ret[t].str = log[1].str
                   /\ Len(ret[t].str) = encodedLength
    /\ Len(log) >= 1
          => /\ log[1].outcome = NoErr
             /\ log[1].timestamp = log[1].supplied
             /\ ~GreaterBytes(log[1].timestamp, maxTimestamp)

\* C5 witness: NewTime(2^48 - 1) was the first call of a fresh generator and
\* returned a string carrying timestamp 2^48 - 1.
C5_Witness ==
    \E t \in Threads :
        /\ pc[t] = "done"
        /\ call[t].supplied = maxTimestamp
        /\ call[t].slot = 1
        /\ ret[t].err = NoErr
        /\ Parse(ret[t].str).ulid.timestamp = maxTimestamp

\* C6: a call NewTime(2^48 - 1) that finds lastTime = 2^48 - 1 and
\* lastRandomness all-ones returns the randomness-exhaustion error and no
\* string, whatever it drew.
C6_Exhaustion ==
    /\ \A t \in Threads :
          ( /\ call[t].supplied = maxTimestamp
            /\ call[t].foundTime = maxTimestamp
            /\ call[t].foundRandomness = MaxRandomness )
          => /\ pc[t] \in {"exhausted", "done"}
             /\ pc[t] = "done" => ret[t] = [str |-> << >>, err |-> ErrExhausted]
    /\ \A i \in DOMAIN log :
          ( /\ log[i].supplied = maxTimestamp
            /\ log[i].foundTime = maxTimestamp
            /\ log[i].foundRandomness = MaxRandomness )
          => log[i].outcome = ErrExhausted /\ log[i].str = << >>

\* C6 witness: such a call has returned, having drawn a non-zero randomness.
C6_Witness ==
    \E t \in Threads :
        /\ pc[t] = "done"
        /\ call[t].supplied = maxTimestamp
        /\ call[t].foundTime = maxTimestamp
        /\ call[t].foundRandomness = MaxRandomness
        /\ call[t].drawn # ZeroRandomness
        /\ ret[t].err = ErrExhausted

\* C7: lastTime and lastRandomness change only in the store step of a call,
\* and a call that returns an error has not gone through that step: its
\* return step leaves both unchanged, returns no string, and comes right after
\* the failed check or draw (no second attempt).
C7_ErrorsLeaveState ==
    [][ /\ << lastTime, lastRandomness >>' # << lastTime, lastRandomness >>
            => \E t \in Threads : pc[t] = "store" /\ pc'[t] = "unlock" /\ call'[t].wrote
        /\ \A t \in Threads :
              (Returning(t) /\ ret'[t].err # NoErr)
              => /\ ~call'[t].wrote
                 /\ ret'[t].str = << >>
                 /\ lastTime' = lastTime /\ lastRandomness' = lastRandomness
                 /\ ret'[t].err = ErrTimestamp => call'[t].draws = 0
                 /\ ret'[t].err = ErrExhausted => call'[t].draws = 1
                 /\ ret'[t].err = ErrRandom => call'[t].draws \in {1, 2}
      ]_vars

\* C7 witness: the re-draw after a rollover failed; the state is still the
\* one the call found.
C7_Witness ==
    \E t \in Threads :
        /\ pc[t] = "done"
        /\ ret[t].err = ErrRandom
        /\ call[t].draws = 2
        /\ lastTime = call[t].foundTime
        /\ lastRandomness = MaxRandomness

\* C8: Parse(ULID{t, r}.String()) succeeds and returns timestamp t and
\* randomness r.
C8_RoundTrip ==
    cphase = "parsed" => (cres.err = NoErr /\ cres.ulid = cin[1])

\* C8 witness: the round trip of the largest ULID.
C8_Witness ==
    /\ cphase = "parsed"
    /\ cin[1] = [timestamp |-> maxTimestamp, randomness |-> MaxRandomness]
    /\ cres.ulid.randomness = MaxRandomness

\* C9: b1 < b2 as 16-byte big-endian values if and only if
\* String(b1) < String(b2) byte-wise; in particular a smaller timestamp sorts
\* first whatever the randomness.
C9_OrderPreserved ==
    cphase \in {"encoded", "parsed"}
    => /\ LessBytes(Binary(cin[1]), Binary(cin[2])) <=> LessString(cstr[1], cstr[2])
       /\ LessBytes(cin[1].timestamp, cin[2].timestamp) => LessString(cstr[1], cstr[2])

\* C9 witness: a smaller timestamp with a larger randomness was encoded.
C9_Witness ==
    /\ cphase = "encoded"
    /\ LessBytes(cin[1].timestamp, cin[2].timestamp)
    /\ GreaterBytes(cin[1].randomness, cin[2].randomness)
    /\ LessString(cstr[1], cstr[2])

\* C10: if Parse accepts s, it accepts uppercase(s) and lowercase(s) and
\* returns the same timestamp and randomness for all three.
C10_CaseInsensitive ==
    (parsed # << >> /\ parsed.plain.err = NoErr)
    => /\ parsed.upper.err = NoErr
       /\ parsed.lower.err = NoErr
       /\ parsed.upper.ulid = parsed.plain.ulid
       /\ parsed.lower.ulid = parsed.plain.ulid

\* C10 witness: an accepted string with both an uppercase and a lowercase
\* letter.
C10_Witness ==
    /\ parsed # << >>
    /\ parsed.plain.err = NoErr
    /\ text # ToUpper(text)
    /\ text # ToLower(text)
    /\ parsed.upper.ulid = parsed.plain.ulid

\* the accepted input characters: the digits and the 26 letters in either
\* case (the Crockford letters and the aliases I L O U)
AcceptedChars == (48..57) \cup (65..90) \cup (97..122)

\* C11: for a 26-character string s over the accepted characters, Parse(s)
\* returns what Parse returns for s with every I i L l replaced by 1, every
\* O o by 0 and every U u by V.
C11_AliasMapping ==
    ( /\ parsed # << >>
      /\ Len(text) = encodedLength
      /\ \A i \in 1..Len(text) : text[i] \in AcceptedChars )
    => parsed.plain = parsed.canon

\* C11 witness: an accepted string holding a U or u and another alias was
\* parsed, and so was its replacement.
C11_Witness ==
    /\ parsed # << >>
    /\ parsed.plain.err = NoErr
    /\ \E i, j \in 1..Len(text) :
          /\ text[i] \in {85, 117}
          /\ text[j] \in {73, 105, 76, 108, 79, 111}
    /\ parsed.canon = parsed.plain

\* C12: Parse(s) fails with the length error exactly when len(s) # 26, with
\* the character error exactly when len(s) = 26 and some byte is not an
\* accepted character, and succeeds otherwise; the decode table rejects
\* exactly the bytes that are not accepted characters.
C12_ParseErrors ==
    parsed # << >>
    => LET e == parsed.plain.err
           bad == \E i \in 1..Len(text) : text[i] \notin AcceptedChars
       IN  /\ e \in {NoErr, ErrLength, ErrCharacter}
           /\ e = ErrLength <=> Len(text) # encodedLength
           /\ e = ErrCharacter <=> (Len(text) = encodedLength /\ bad)
           /\ e = NoErr <=> (Len(text) = encodedLength /\ ~bad)
           /\ \A c \in Byte : decodeTable[c] = 255 <=> c \notin AcceptedChars

\* C12 witness: a 27-character string with a character that is not accepted
\* was refused for its length.
C12_Witness ==
    /\ parsed # << >>
    /\ Len(text) = encodedLength + 1
    /\ \E i \in 1..Len(text) : text[i] \notin AcceptedChars
    /\ parsed.plain.err = ErrLength

\* C13 as stated: Parse("invalid-ulid-string") fails with the character
\* error.
C13_InvalidStringCharacter ==
    (parsed # << >> /\ text = InvalidString)
    => parsed.plain.err = ErrCharacter

\* C13 amended: Parse("invalid-ulid-string") fails with the length error (the
\* string has 19 bytes and the length is checked first) and returns the zero
\* ULID.
C13_InvalidStringLength ==
    (parsed # << >> /\ text = InvalidString)
    => /\ parsed.plain.err = ErrLength
       /\ parsed.plain.ulid = ZeroULID

\* C13 witness: Parse("invalid-ulid-string") has returned an error.
C13_Witness ==
    /\ parsed # << >>
    /\ text = InvalidString
    /\ Len(text) = 19
    /\ parsed.plain.err # NoErr

\* the call of log entry i rolled over: it found its own timestamp with an
\* all-ones randomness
RolledOver(i) ==
    log[i].supplied = log[i].foundTime /\ log[i].foundRandomness = MaxRandomness

\* C14 as stated: Parse of the string of every successful NewTime(T) succeeds
\* and its GetTime() is T.
C14_GetTimeIsSupplied ==
    \A i \in DOMAIN log :
        (log[i].outcome = NoErr /\ log[i].str # << >>)
        => /\ ParseLookup(log[i].str).err = NoErr
           /\ GetTime(ParseLookup(log[i].str).ulid) = log[i].supplied

\* C14 amended: Parse of the string of every successful NewTime(T) succeeds
\* and its GetTime() is T, or T + 1 when the call rolled over (T = lastTime
\* and lastRandomness all-ones).
C14_GetTimeIsIssued ==
    \A i \in DOMAIN log :
        (log[i].outcome = NoErr /\ log[i].str # << >>)
        => /\ ParseLookup(log[i].str).err = NoErr
           /\ GetTime(ParseLookup(log[i].str).ulid) =
                 IF RolledOver(i) THEN IncU64(log[i].supplied) ELSE log[i].supplied

\* C14 witness: NewTime(2^48 - 1) returned a string a second time without
\* rolling over, and its GetTime() is 2^48 - 1.
C14_Witness ==
    \E i \in DOMAIN log :
        /\ i > 1
        /\ log[i].outcome = NoErr
        /\ log[i].str # << >>
        /\ log[i].supplied = maxTimestamp
        /\ log[i].foundTime = maxTimestamp
        /\ GetTime(ParseLookup(log[i].str).ulid) = maxTimestamp

\* the 32 output characters 0123456789abcdefghjkmnpqrstvwxyz
OutputChars == (48..57) \cup ((97..122) \ {105, 108, 111, 117})

\* a canonical output string: 26 output characters, the value of the last one
\* a multiple of 4
WellFormed(s) ==
    /\ Len(s) = 26
    /\ \A i \in 1..Len(s) : s[i] \in OutputChars
    /\ ((CHOOSE v \in 1..32 : crockfordAlphabet[v] = s[26]) - 1) % 4 = 0

\* every string NewTime can return in the generator runs
IssuedStringsWellFormed == \A e \in EncodeTable : WellFormed(e[2])

\* C15: every string returned by ULID.String, and every string New/NewTime
\* can return, has 26 characters of 0123456789abcdefghjkmnpqrstvwxyz, and
\* the two low bits of its last symbol are zero.
C15_OutputAlphabet ==
    cphase \in {"encoded", "parsed"}
    => /\ WellFormed(cstr[1])
       /\ WellFormed(cstr[2])
       /\ IssuedStringsWellFormed

\* C15 witness: a ULID whose last randomness byte is 0xFF was encoded; its
\* last symbol is w (value 28).
C15_Witness ==
    /\ cphase = "encoded"
    /\ cin[1].randomness[randomnessBytes] = 255
    /\ cstr[1][26] = 119

\* C16: two identifiers issued by different successful calls are never the
\* same (timestamp, randomness) pair, and their strings differ.
C16_Unique ==
    \A i, j \in DOMAIN log :
        (i < j /\ log[i].outcome = NoErr /\ log[j].outcome = NoErr)
        => /\ << log[i].timestamp, log[i].randomness >>
                 # << log[j].timestamp, log[j].randomness >>
           /\ (log[i].str # << >> /\ log[j].str # << >>) => log[i].str # log[j].str

\* the positions of NewTime between mutex.Lock() and mutex.Unlock()
InCS(t) == pc[t] \in {"cs", "store", "redraw", "exhausted", "unlock"}

\* the generator state after the first k calls that left the critical section:
\* what the last successful one of them stored, the zero state if none did
StateAfter(k) ==
    LET ok == {i \in 1..k : log[i].outcome = NoErr}
    IN  IF ok = {} THEN << ZeroTime, ZeroRandomness >>
        ELSE LET i == CHOOSE x \in ok : \A y \in ok : y <= x
             IN  << log[i].timestamp, log[i].randomness >>

\* the critical section of NewTime run alone on the state (lt, lr): ts is the
\* supplied timestamp, r1 the first drawn value, r2 the outcome of the re-draw
NewTimeSeq(lt, lr, ts, r1, r2) ==
    LET Out(e, t2, r) == [err |-> e, timestamp |-> t2, randomness |-> r]
        inc == UnrolledIncrement(lr)
    IN  IF ts = lt /\ NeedIncrement(r1, lr)
        THEN IF inc.overflow
             THEN IF Exhausted(IncU64(ts))
                  THEN Out(ErrExhausted, IncU64(ts), inc.randomness)
                  ELSE IF r2 = DrawError
                       THEN Out(ErrRandom, IncU64(ts), inc.randomness)
                       ELSE Out(NoErr, IncU64(ts), r2)
             ELSE Out(NoErr, ts, inc.randomness)
        ELSE Out(NoErr, ts, r1)

\* the call of thread t has left the critical section
LeftCS(t) ==
    \/ pc[t] \in {"unlock", "encode"}
    \/ pc[t] = "done" /\ (call[t].wrote \/ ret[t].err = ErrExhausted
                          \/ (ret[t].err = ErrRandom /\ call[t].draws = 2))

\* what the call of thread t did to its timestamp and randomness
Outcome(t) ==
    [err |-> IF pc[t] = "done" THEN ret[t].err ELSE NoErr,
     timestamp |-> timestamp[t],
     randomness |-> randomness[t]]

\* C17: at most one call is between mutex.Lock() and mutex.Unlock() at a
\* time; every call that left the critical section read the state its
\* predecessor in lock order left, and did to it exactly what the critical
\* section run alone does; the generator state is the one the last successful
\* call stored. So the outputs and the final state are those of the calls run
\* one after the other in lock-acquisition order.
C17_Linearizable ==
    /\ \A t, u \in Threads : (InCS(t) /\ InCS(u)) => t = u
    /\ \A t \in Threads : InCS(t) <=> mutex = t
    /\ << lastTime, lastRandomness >> = StateAfter(Len(log))
    /\ \A k \in DOMAIN log :
          << log[k].foundTime, log[k].foundRandomness >> = StateAfter(k - 1)
    /\ \A t \in Threads :
          /\ pc[t] \in {"store", "redraw", "exhausted"}
                => << call[t].foundTime, call[t].foundRandomness >>
                       = << lastTime, lastRandomness >>
          /\ LeftCS(t)
                => Outcome(t) = NewTimeSeq(call[t].foundTime, call[t].foundRandomness,
                                           call[t].supplied, call[t].drawn,
                                           IF call[t].wrote THEN call[t].redrawn
                                           ELSE DrawError)

\* a call has stored an identifier, another holds the mutex after reading
\* that state, and a third party waits at mutex.Lock()
C17_Witness ==
    \E t, u \in Threads :
        /\ t # u
        /\ pc[t] \in {"store", "unlock"}
        /\ pc[u] = "lock"
        /\ \E k \in DOMAIN log : log[k].outcome = NoErr /\ log[k].thread = u
        /\ call[t].foundTime = call[t].supplied

\* b + 1 for an unsigned big-endian byte tuple b that is not all 0xFF: the
\* last byte below 0xFF goes up by one, the bytes after it become 0
Succ(b) ==
    LET i == CHOOSE x \in 1..Len(b) :
                 b[x] # 255 /\ \A y \in (x + 1)..Len(b) : b[y] = 255
    IN  [k \in 1..Len(b) |-> IF k < i THEN b[k] ELSE IF k = i THEN b[k] + 1 ELSE 0]

\* the unrolled increment carries through k trailing 0xFF bytes, k = 0..9
CarryCases ==
    \A k \in 0..(randomnessBytes - 1) :
        UnrolledIncrement(Ones(k)) = [randomness |-> Succ(Ones(k)), overflow |-> FALSE]

\* the call of thread t is past the comparison with (lastTime, lastRandomness)
Compared(t) == pc[t] \in {"store", "redraw", "exhausted"} \/ LeftCS(t)

\* C19: a call NewTime(T) that finds lastTime = T and lastRandomness not
\* all-ones succeeds with its first draw only, issues timestamp T and as
\* randomness the drawn value r if r > lastRandomness, lastRandomness + 1
\* (80-bit big-endian) if r <= lastRandomness.
C19_SameMillisecond ==
    /\ CarryCases
    /\ \A t \in Threads :
          (/\ Compared(t)
           /\ call[t].supplied = call[t].foundTime
           /\ call[t].foundRandomness # MaxRandomness)
          => /\ pc[t] \notin {"redraw", "exhausted"}
             /\ pc[t] = "done" => ret[t].err = NoErr
             /\ call[t].draws = 1
             /\ timestamp[t] = call[t].supplied
             /\ randomness[t] =
                    IF GreaterBytes(call[t].drawn, call[t].foundRandomness)
                    THEN call[t].drawn
                    ELSE Succ(call[t].foundRandomness)

\* both branches have been taken: one call drew less than lastRandomness and
\* was given lastRandomness + 1, another drew more and kept its value
C19_Witness ==
    \E t, u \in Threads :
        /\ pc[t] = "done" /\ ret[t].err = NoErr
        /\ call[t].supplied = call[t].foundTime
        /\ call[t].foundRandomness # MaxRandomness
        /\ LessBytes(call[t].drawn, call[t].foundRandomness)
        /\ randomness[t] = Succ(call[t].foundRandomness)
        /\ pc[u] = "done" /\ ret[u].err = NoErr
        /\ call[u].supplied = call[u].foundTime
        /\ GreaterBytes(call[u].drawn, call[u].foundRandomness)
        /\ randomness[u] = call[u].drawn

\* the call of thread t found lastTime equal to its timestamp, below
\* maxTimestamp, and lastRandomness all-ones
FoundRollover(t) ==
    /\ Compared(t)
    /\ call[t].supplied = call[t].foundTime
    /\ LessBytes(call[t].supplied, maxTimestamp)
    /\ call[t].foundRandomness = MaxRandomness

C18_EventuallyReturns ==
    /\ \A t \in Threads : []<>Free(t)
    /\ [](\A t \in Threads : Free(t) => mutex # t)
    /\ []((\A t \in Threads : Free(t)) => mutex = 0)

\* a call has left through an error exit inside the critical section, and
\* the call of another thread has acquired the mutex after it
C18_Witness ==
    \E k \in DOMAIN log, t \in Threads :
        /\ log[k].outcome \in {ErrExhausted, ErrRandom}
        /\ log[k].thread # t
        /\ k = Len(log)
        /\ pc[t] = "cs"
        /\ mutex = t

\* C21: a successful call that has stored and not yet released the mutex
\* holds it, and (lastTime, lastRandomness) is its (timestamp, randomness);
\* the string it then returns decodes to exactly the pair it stored; and in
\* every reachable state the generator state is the pair of the call that
\* stored last in lock order (the zero state before any did).
C21_StateIsLastIssued ==
    /\ \A t \in Threads :
          /\ pc[t] = "unlock"
                => /\ mutex = t
                   /\ lastTime = timestamp[t]
                   /\ lastRandomness = randomness[t]
                   /\ call[t].slot = Len(log)
          /\ (pc[t] = "done" /\ call[t].wrote)
                => /\ ParseLookup(ret[t].str).err = NoErr
                   /\ ParseLookup(ret[t].str).ulid
                          = [timestamp |-> log[call[t].slot].timestamp,
                             randomness |-> log[call[t].slot].randomness]
    /\ LET ok == OkLog
       IN  << lastTime, lastRandomness >> =
               IF ok = << >> THEN << ZeroTime, ZeroRandomness >>
               ELSE << ok[Len(ok)].timestamp, ok[Len(ok)].randomness >>

\* a call that rolled over holds the mutex with (T+1, second draw) stored,
\* after another call has returned its string
C21_Witness ==
    \E t, u \in Threads :
        /\ pc[t] = "unlock"
        /\ call[t].draws = 2
        /\ lastTime = IncU64(call[t].supplied)
        /\ lastRandomness = call[t].redrawn
        /\ pc[u] = "done" /\ call[u].wrote /\ ret[u].str # << >>

\* C22: a call NewTime(T) with T <= 2^48-1 that finds lastTime < T succeeds
\* with its first draw only and issues exactly (T, r), r the drawn value,
\* whatever lastRandomness is; the string it returns encodes (T, r).
C22_LaterTimestamp ==
    \A t \in Threads :
        (Compared(t) /\ LessBytes(call[t].foundTime, call[t].supplied))
        => /\ pc[t] \notin {"redraw", "exhausted"}
           /\ call[t].draws = 1
           /\ timestamp[t] = call[t].supplied
           /\ randomness[t] = call[t].drawn
           /\ pc[t] = "unlock"
                 => lastTime = call[t].supplied /\ lastRandomness = call[t].drawn
           /\ pc[t] = "done"
                 => /\ ret[t].err = NoErr
                    /\ ret[t].str = EncodeLookup(call[t].supplied, call[t].drawn)

\* a later timestamp arrived when lastRandomness was all-ones and the draw
\* was zero: the zero was issued as drawn
C22_Witness ==
    \E t \in Threads :
        /\ pc[t] = "done"
        /\ ret[t].err = NoErr
        /\ LessBytes(call[t].foundTime, call[t].supplied)
        /\ call[t].foundRandomness = MaxRandomness
        /\ call[t].drawn = ZeroRandomness
        /\ randomness[t] = ZeroRandomness

\* C23: Parse of a 26-character string whose 26th symbol has non-zero low 2
\* bits succeeds and returns what Parse returned for the string with those
\* bits cleared; the two strings differ, so Parse is not injective, and the
\* String() of the parsed value is the cleared string, not the lowercase of
\* the string parsed.
C23_LowBitsIgnored ==
    [][(cphase = "lenient" /\ cphase' = "reparsed")
       => /\ cstr[2] # cstr[1]
          /\ decodeTable[cstr[2][encodedLength]] % 4 # 0
          /\ decodeTable[cstr[1][encodedLength]]
                 = decodeTable[cstr[2][encodedLength]]
                       - (decodeTable[cstr[2][encodedLength]] % 4)
          /\ SubSeq(cstr[2], 1, encodedLength - 1) = SubSeq(cstr[1], 1, encodedLength - 1)
          /\ cres.err = NoErr
          /\ cres' = cres
          /\ cres'.ulid = cin[1]
          /\ cstr[1] # ToLower(cstr[2])]_vars

\* the string ending in z (value 31) was parsed to the all-ones randomness,
\* the value of the string ending in w (value 28)
C23_Witness ==
    /\ cphase = "reparsed"
    /\ cstr[2][encodedLength] = 122
    /\ cstr[1][encodedLength] = 119
    /\ cres.err = NoErr
    /\ cres.ulid = cin[1]
    /\ cin[1].randomness = MaxRandomness

\* C24: the exhaustion error is returned only to a call NewTime(2^48-1) made
\* after an earlier call of the run issued (2^48-1, all-ones), so it takes at
\* least two calls from the fresh state; and (the witness) two calls are
\* enough: NewTime(2^48-1) drawing all-ones, then NewTime(2^48-1).
C24_ExhaustionByCalls ==
    \A k \in DOMAIN log :
        log[k].outcome = ErrExhausted
        => /\ log[k].supplied = maxTimestamp
           /\ \E j \in 1..(k - 1) :
                 /\ log[j].outcome = NoErr
                 /\ log[j].supplied = maxTimestamp
                 /\ log[j].timestamp = maxTimestamp
                 /\ log[j].randomness = MaxRandomness

\* the second call of a run that started fresh has returned the exhaustion
\* error; the first one found the fresh state
C24_Witness ==
    /\ ncalls = 2
    /\ Len(log) = 2
    /\ log[1].outcome = NoErr
    /\ log[1].foundTime = ZeroTime /\ log[1].foundRandomness = ZeroRandomness
    /\ log[2].outcome = ErrExhausted
    /\ \E t \in Threads : pc[t] = "done" /\ ret[t].err = ErrExhausted

\* Generator states and calls beyond those the bounded runs reach, for the
\* critical section run alone: timestamps 0, 1, 2^48-2, 2^48-1; randomness
\* 0, 0xFF, 2^72-1, 2^72, all-ones; second draws 0 and all-ones
SeqTimes ==
    {ZeroTime, Succ(ZeroTime), << 0, 0, 255, 255, 255, 255, 255, 254 >>, maxTimestamp}
SeqRands == {Ones(0), Ones(1), Ones(9), Succ(Ones(9)), Ones(10)}
SeqCases ==
    {[lt |-> c[1], lr |-> c[2], ts |-> c[3], r1 |-> c[4], r2 |-> c[5],
      out |-> NewTimeSeq(c[1], c[2], c[3], c[4], c[5])] :
        c \in SeqTimes \X SeqRands \X SeqTimes \X SeqRands \X RandInputs}

\* the critical section run alone on a state with lastTime <= T issues, when
\* it succeeds, a pair above (lastTime, lastRandomness)
SeqIncreasing ==
    \A c \in SeqCases :
        (c.out.err = NoErr /\ ~LessBytes(c.ts, c.lt))
        => LessID(c.lt, c.lr, c.out.timestamp, c.out.randomness)

\* C25: a successful call NewTime(T) that found lastTime <= T issued a
\* (timestamp, randomness) pair strictly above the (lastTime, lastRandomness)
\* it found, and its string is strictly above the string of that state.
C25_AboveFoundState ==
    /\ SeqIncreasing
    /\ \A k \in DOMAIN log :
          (log[k].outcome = NoErr /\ ~LessBytes(log[k].supplied, log[k].foundTime))
          => /\ LessID(log[k].foundTime, log[k].foundRandomness,
                       log[k].timestamp, log[k].randomness)
             /\ log[k].str # << >>
                   => LessString(EncodeLookup(log[k].foundTime, log[k].foundRandomness),
                                 log[k].str)

\* a call that drew less than the lastRandomness it found at its own
\* timestamp has returned a string above the one issued before it
C25_Witness ==
    \E k \in DOMAIN log :
        /\ k > 1
        /\ log[k].outcome = NoErr
        /\ log[k].supplied = log[k].foundTime
        /\ log[k - 1].randomness # MaxRandomness
        /\ log[k].randomness = Succ(log[k - 1].randomness)
        /\ log[k - 1].str # << >> /\ log[k].str # << >>
        /\ log[k - 1].outcome = NoErr
        /\ LessString(log[k - 1].str, log[k].str)

\* NewTime(T) finds lastTime = T = 2^48-1 and lastRandomness all-ones
AtTheEnd(lt, lr, ts) == ts = maxTimestamp /\ lt = maxTimestamp /\ lr = MaxRandomness

\* the critical section run alone, with draws that succeed, fails exactly at
\* the end of the identifier space, with the exhaustion error
SeqFailsOnlyAtTheEnd ==
    \A c \in SeqCases :
        /\ c.out.err # NoErr <=> AtTheEnd(c.lt, c.lr, c.ts)
        /\ c.out.err \in {NoErr, ErrExhausted}

\* C26: a call NewTime(T) with T <= 2^48-1 whose draws succeeded has failed
\* if and only if it found lastTime = T = 2^48-1 and lastRandomness all-ones,
\* and then with the exhaustion error; in every other state it has succeeded.
C26_FailsOnlyAtTheEnd ==
    /\ SeqFailsOnlyAtTheEnd
    /\ \A t \in Threads :
          /\ (pc[t] = "done" /\ ~OutOfRange(call[t].supplied) /\ ret[t].err # ErrRandom)
                => /\ ret[t].err \in {NoErr, ErrExhausted}
                   /\ ret[t].err = ErrExhausted
                         <=> AtTheEnd(call[t].foundTime, call[t].foundRandomness,
                                      call[t].supplied)
          /\ pc[t] \in {"store", "redraw", "exhausted"}
                => (pc[t] = "exhausted"
                         <=> AtTheEnd(call[t].foundTime, call[t].foundRandomness,
                                      call[t].supplied))

\* NewTime(2^48-1) has succeeded on a state with lastTime = 2^48-1 by
\* incrementing lastRandomness, and on the state it left another
\* NewTime(2^48-1) that drew all-ones has succeeded too
C26_Witness ==
    \E t, u \in Threads :
        /\ t # u
        /\ pc[t] = "done" /\ ret[t].err = NoErr
        /\ call[t].supplied = maxTimestamp /\ call[t].foundTime = maxTimestamp
        /\ call[t].foundRandomness # MaxRandomness
        /\ randomness[t] = Succ(call[t].foundRandomness)
        /\ pc[u] = "done" /\ ret[u].err = NoErr
        /\ call[u].supplied = maxTimestamp /\ call[u].foundTime = maxTimestamp
        /\ call[u].foundRandomness = randomness[t]
        /\ randomness[u] = MaxRandomness

\* the critical section run alone issues timestamp T, or T+1 after a
\* rollover, and never a timestamp above 2^48-1
SeqTimestampStep ==
    \A c \in SeqCases :
        c.out.err = NoErr
        => /\ \/ c.out.timestamp = c.ts
              \/ /\ c.out.timestamp = Succ(c.ts)
                 /\ c.ts = c.lt
                 /\ c.lr = MaxRandomness
           /\ ~GreaterBytes(c.out.timestamp, maxTimestamp)

\* C27: every successful NewTime(T) issued timestamp T, or T+1 when it found
\* lastTime = T and lastRandomness all-ones; lastTime is at most 2^48-1 in
\* every reachable state, and every issued timestamp has its top 16 bits zero.
C27_TimestampStep ==
    /\ SeqTimestampStep
    /\ ~GreaterBytes(lastTime, maxTimestamp)
    /\ \A k \in DOMAIN log :
          log[k].outcome = NoErr
          => /\ \/ log[k].timestamp = log[k].supplied
                \/ /\ log[k].timestamp = Succ(log[k].supplied)
                   /\ log[k].supplied = log[k].foundTime
                   /\ log[k].foundRandomness = MaxRandomness
             /\ log[k].timestamp[1] = 0 /\ log[k].timestamp[2] = 0
    /\ \A t \in Threads :
          pc[t] \in {"store", "unlock", "encode"}
          => ~GreaterBytes(timestamp[t], maxTimestamp)

\* the generator state is (1, r) after a rollover of NewTime(0), and a call
\* NewTime(2^48-1) has been issued 2^48-1 after it
C27_Witness ==
    \E j, k \in DOMAIN log :
        /\ j < k
        /\ log[j].outcome = NoErr
        /\ log[j].supplied = ZeroTime
        /\ log[j].timestamp = Succ(ZeroTime)
        /\ log[k].outcome = NoErr
        /\ log[k].supplied = maxTimestamp
        /\ log[k].timestamp = maxTimestamp
        /\ lastTime = maxTimestamp

\* the call of thread t is the first of the run to get past the comparison
FirstCall(t) ==
    \/ pc[t] = "store" /\ Len(log) = 0
    \/ call[t].wrote /\ call[t].slot = 1

\* C28: the first call of a run finds lastTime = 0 and lastRandomness
\* all-zero. If it is NewTime(0) it is handled as a same-timestamp call: it
\* issues timestamp 0 with the drawn randomness if that is not zero and with
\* randomness 1 if it is zero, so never the identifier (0, 0). If it is
\* NewTime(T) with T > 0 it issues (T, r) with r as drawn.
C28_FirstCall ==
    \A t \in Threads :
        FirstCall(t)
        => /\ call[t].foundTime = ZeroTime
           /\ call[t].foundRandomness = ZeroRandomness
           /\ call[t].draws = 1
           /\ timestamp[t] = call[t].supplied
           /\ randomness[t] =
                  IF call[t].supplied = ZeroTime /\ call[t].drawn = ZeroRandomness
                  THEN << 0, 0, 0, 0, 0, 0, 0, 0, 0, 1 >>
                  ELSE call[t].drawn
           /\ call[t].supplied = ZeroTime => randomness[t] # ZeroRandomness
           /\ (pc[t] = "done" /\ call[t].supplied = ZeroTime)
                 => /\ ret[t].err = NoErr
                    /\ ret[t].str # EncodeLookup(ZeroTime, ZeroRandomness)

\* the first call was NewTime(0), drew zero and returned the string of (0, 1);
\* a first call NewTime(2^48-1) that drew zero is covered by the other branch
C28_Witness ==
    \E t \in Threads :
        /\ pc[t] = "done"
        /\ FirstCall(t)
        /\ call[t].supplied = ZeroTime
        /\ call[t].drawn = ZeroRandomness
        /\ ret[t].str = EncodeLookup(ZeroTime, << 0, 0, 0, 0, 0, 0, 0, 0, 0, 1 >>)

\* C29: the unrolled increment of a 10-byte value b yields b + 1 when b is
\* not all 0xFF (the last byte below 0xFF goes up by one, the bytes after it
\* wrap to 0) without overflow, and all-zero with overflow when b is all
\* 0xFF; incrementRandomness yields the same value and the same overflow.
C29_UnrolledIncrement ==
    /\ incRes.unrolled # << >>
          => /\ incRes.unrolled.overflow <=> incArg = MaxRandomness
             /\ incRes.unrolled.randomness =
                    IF incArg = MaxRandomness THEN ZeroRandomness ELSE Succ(incArg)
    /\ (incRes.unrolled # << >> /\ incRes.helper # << >>)
          => incRes.unrolled = incRes.helper

\* both increments have carried through nine bytes into byte 0
C29_Witness ==
    /\ incArg = << 127, 255, 255, 255, 255, 255, 255, 255, 255, 255 >>
    /\ incRes.unrolled = [randomness |-> << 128, 0, 0, 0, 0, 0, 0, 0, 0, 0 >>,
                          overflow |-> FALSE]
    /\ incRes.helper = incRes.unrolled

\* C30: given the same calls with the same draws, the unrolled NewTime in any
\* interleaving and the helper-based NewTime run call by call, in the order in
\* which the unrolled calls take the mutex, have the same (lastTime,
\* lastRandomness) in every state, and every call returns the same string or
\* the same error from both.
C30_SameAsHelper ==
    /\ lastTime = hLastTime
    /\ lastRandomness = hLastRandomness
    /\ \A t \in Threads :
          /\ pc[t] = "done" => ret[t] = hret[t]
          /\ pc[t] \in {"unlock", "encode"}
                => hret[t] = [str |-> EncodeLookup(timestamp[t], randomness[t]),
                              err |-> NoErr]
          /\ pc[t] \in {"lock", "cs", "store", "redraw", "exhausted"} => hret[t] = NoRet

\* both generators returned the same string to the call that issued
\* (0, all-ones) and the same string to the call that rolled over after it,
\* and both are in the state that call stored
C30_Witness ==
    \E t, u \in Threads :
        /\ t # u
        /\ pc[u] = "done" /\ ret[u].err = NoErr /\ ret[u].str # << >>
        /\ call[u].supplied = ZeroTime /\ randomness[u] = MaxRandomness
        /\ hret[u] = ret[u]
        /\ pc[t] = "done" /\ ret[t].err = NoErr /\ ret[t].str # << >>
        /\ call[t].supplied = ZeroTime /\ call[t].draws = 2
        /\ hret[t] = ret[t]
        /\ hLastTime = Succ(ZeroTime)
        /\ hLastRandomness = call[t].redrawn

====
